---- MODULE Spec2Model ----
(***************************************************************************)
(* The RAML splitter (raml_processor.py) and the layout validator          *)
(* (raml_validator.py) as one state machine over a modelled output tree.   *)
(*                                                                         *)
(* Strings are sequences of symbols.  A symbol is "/" (the path            *)
(* separator), a single character (parameter names, table keywords) or an  *)
(* atomic piece of a file name that holds no "/" ("interface", ".json").   *)
(* A path is a string relative to the output root with single "/"          *)
(* separators and none at either end; the root itself is <<>>.             *)
(***************************************************************************)
EXTENDS Naturals, Sequences, FiniteSets, Bags, TLC

\* ------------------------------------------------------------- bounds
\* Runs of process_raml in one behaviour.
MaxRuns == 2
\* Seconds the wall clock can advance in one behaviour.
MaxClock == 1
\* Edits the environment makes to the output tree in one behaviour.
MaxTamper == 1
\* Longest parameter name tried against the example table.
MaxNameLen == 3

\* ------------------------------------------------------------ strings
LStrip(s) == LET n == Len(s)
                 k == CHOOSE i \in 0..n :
                        /\ \A j \in 1..i : s[j] = "/"
                        /\ (i < n => s[i + 1] # "/")
             IN  SubSeq(s, k + 1, n)

RStrip(s) == LET n == Len(s)
                 k == CHOOSE i \in 0..n :
                        /\ \A j \in (i + 1)..n : s[j] = "/"
                        /\ (i > 0 => s[i] # "/")
             IN  SubSeq(s, 1, k)

\* str.strip('/')
Strip(s) == RStrip(LStrip(s))

\* str.startswith('/')
StartsWithSlash(s) == s # <<>> /\ s[1] = "/"

\* str.lower(), on the characters the bounded names are made of
LowerChar(c) == CASE c = "I" -> "i"
                  [] c = "P" -> "p"
                  [] c = "M" -> "m"
                  [] OTHER   -> c

Lower(s) == [i \in 1..Len(s) |-> LowerChar(s[i])]

\* k in s
IsSubstring(k, s) ==
    \E i \in 0..Len(s) : i + Len(k) <= Len(s) /\ SubSeq(s, i + 1, i + Len(k)) = k

\* -------------------------------------------------------------- paths
\* pathlib drops empty components: "a//b" is "a/b"
RECURSIVE Collapse(_)
Collapse(s) == IF Len(s) < 2 THEN s
               ELSE IF s[1] = "/" /\ s[2] = "/" THEN Collapse(Tail(s))
               ELSE <<s[1]>> \o Collapse(Tail(s))

\* dir / rel, for a rel that does not start with "/"
Join(dir, rel) == LET r == RStrip(Collapse(rel))
                  IN  IF r = <<>> THEN dir
                      ELSE IF dir = <<>> THEN r
                      ELSE dir \o <<"/">> \o r

Root == <<>>

\* Positions of the separators of p
Seps(p) == {i \in 1..Len(p) : p[i] = "/"}

LastSep(p) == CHOOSE i \in Seps(p) : \A j \in Seps(p) : j <= i

\* Path.parent (of a path below the root)
Parent(p) == IF Seps(p) = {} THEN Root ELSE SubSeq(p, 1, LastSep(p) - 1)

\* Path.name
BaseName(p) == IF Seps(p) = {} THEN p ELSE SubSeq(p, LastSep(p) + 1, Len(p))

\* The root and every directory on the way from it to p, p excluded
Ancestors(p) == {Root} \cup {SubSeq(p, 1, i - 1) : i \in Seps(p)}

\* name.startswith('.')
Hidden(name) == name # <<>> /\ name[1] \in {".", ".json", ".md", ".git"}

\* fnmatch('*.json'), name.endswith('.json')
IsJsonName(name) == name # <<>> /\ name[Len(name)] = ".json"

IsMdName(name) == name # <<>> /\ name[Len(name)] = ".md"

\* --------------------------------------------------- mappings, JSON
\* A Python dict is a sequence of [key, value] entries with distinct keys,
\* in insertion order; a dict with fixed field names is a record.
Get(rec, field, default) == IF field \in DOMAIN rec THEN rec[field] ELSE default

\* A YAML value: a mapping with its entries, or anything else.
Mapping(entries) == [kind |-> "mapping", items |-> entries]

Scalar == [kind |-> "scalar", items |-> <<>>]

\* isinstance(v, dict)
IsMapping(v) == v.kind = "mapping"

\* ------------------------------------------------- ExampleGenerator
K_ip == <<"i", "p">>
K_ipv6 == <<"i", "p", "v", "6">>
K_interface == <<"i", "n", "t", "e", "r", "f", "a", "c", "e">>
K_mac == <<"m", "a", "c">>
K_string == <<"s", "t", "r", "i", "n", "g">>
K_number == <<"n", "u", "m", "b", "e", "r">>
K_boolean == <<"b", "o", "o", "l", "e", "a", "n">>
K_comment == <<"c", "o", "m", "m", "e", "n", "t">>
K_username == <<"u", "s", "e", "r", "n", "a", "m", "e">>
K_password == <<"p", "a", "s", "s", "w", "o", "r", "d">>
K_port == <<"p", "o", "r", "t">>
K_vlan == <<"v", "l", "a", "n">>

\* self.example_values, in the dict's order; values in their JSON spelling
example_values ==
    << [key |-> K_ip,        value |-> "192.168.88.1"],
       [key |-> K_ipv6,      value |-> "2001:db8::1"],
       [key |-> K_interface, value |-> "ether1"],
       [key |-> K_mac,       value |-> "00:0C:29:45:67:89"],
       [key |-> K_string,    value |-> "example_value"],
       [key |-> K_number,    value |-> "1"],
       [key |-> K_boolean,   value |-> "true"],
       [key |-> K_comment,   value |-> "Example comment"],
       [key |-> K_username,  value |-> "admin"],
       [key |-> K_password,  value |-> "password123"],
       [key |-> K_port,      value |-> "8080"],
       [key |-> K_vlan,      value |-> "100"] >>

\* dict.get(key, default) on a sequence of entries
Lookup(entries, k, default) ==
    IF \E i \in 1..Len(entries) : entries[i].key = k
    THEN entries[CHOOSE i \in 1..Len(entries) : entries[i].key = k].value
    ELSE default

\* A faulty synthesizer: the declared type is consulted before the name.
get_example_value_TypeFirst(param_type, param_name) ==
    LET byType == Lookup(example_values, param_type, "none")
        hits   == {i \in 1..Len(example_values) :
                     IsSubstring(example_values[i].key, Lower(param_name))}
    IN  IF byType # "none" THEN byType
        ELSE IF hits # {}
        THEN example_values[CHOOSE i \in hits : \A j \in hits : i <= j].value
        ELSE "example_value"

get_example_value(param_type, param_name) ==
    LET hits == {i \in 1..Len(example_values) :
                   IsSubstring(example_values[i].key, Lower(param_name))}
    IN  IF hits # {}
        THEN example_values[CHOOSE i \in hits : \A j \in hits : i <= j].value
        ELSE Lookup(example_values, param_type, "example_value")

\* method.lower()
LowerMethod(m) == CASE m = "GET"    -> "get"
                    [] m = "POST"   -> "post"
                    [] m = "DELETE" -> "delete"
                    [] OTHER        -> m

generate_example_for_endpoint(endpoint_path, method, params) ==
    LET request_body ==
            [i \in 1..Len(params) |->
                [key   |-> params[i].key,
                 value |-> get_example_value(
                               Get(params[i].value, "type", K_string),
                               params[i].key)]]
        response_body ==
            IF LowerMethod(method) = "get"
            THEN [shape |-> "items", items |-> request_body]
            ELSE IF LowerMethod(method) = "post"
            THEN [shape |-> "result", items |-> <<>>]
            ELSE [shape |-> "status", items |-> <<>>]
    IN  [request     |-> [method |-> method, path |-> endpoint_path,
                          body |-> request_body],
         response    |-> [status |-> 200, body |-> response_body],
         description |-> [text |-> "Example {method} request to {path}",
                          method |-> method, path |-> endpoint_path]]

\* --------------------------------------------------- ApiDocGenerator
\* self.validation_rules
validation_rules ==
    << [key |-> K_ip,
        value |-> [type |-> K_ip, pattern |-> "^(\\d{1,3}\\.){3}\\d{1,3}(/\\d{1,2})?$",
                   description |-> "IPv4 address with optional CIDR",
                   example |-> "192.168.88.1"]],
       [key |-> K_mac,
        value |-> [type |-> K_mac, pattern |-> "^([0-9A-Fa-f]{2}[:-]){5}([0-9A-Fa-f]{2})$",
                   description |-> "MAC address in XX:XX:XX:XX:XX:XX format",
                   example |-> "00:0C:29:45:67:89"]],
       [key |-> K_interface,
        value |-> [type |-> K_interface, pattern |-> "^[a-zA-Z0-9-_]+$",
                   description |-> "Interface name",
                   example |-> "ether1"]] >>

\* One line (or block) of the Markdown text: its fixed text, the string
\* put into it, and the second of the wall clock put into it.
MdLine(t, a, s) == [line |-> t, arg |-> a, at |-> s]

\* datetime.now() as the generated files spell it; the clock counts seconds.
Strftime(now) == [format |-> "%Y-%m-%d %H:%M:%S", second |-> now]

Isoformat(now) == [format |-> "isoformat", second |-> now]

NoTime == [format |-> "", second |-> 0]

RECURSIVE ParamRows(_)
ParamRows(params) ==
    IF params = <<>> THEN <<>>
    ELSE <<MdLine("| {param} | {type} | {required} | {desc} |", params[1].key, NoTime)>>
         \o ParamRows(Tail(params))

RECURSIVE MethodSections(_)
MethodSections(endpoints) ==
    IF endpoints = <<>> THEN <<>>
    ELSE LET details == endpoints[1].value
         IN  << MdLine("### ", <<endpoints[1].key>>, NoTime),
                MdLine("#### Parameters", <<>>, NoTime),
                MdLine("| Name | Type | Required | Description |", <<>>, NoTime),
                MdLine("|------|------|----------|-------------|", <<>>, NoTime) >>
             \o (IF "parameters" \in DOMAIN details
                 THEN ParamRows(details.parameters) ELSE <<>>)
             \o (IF "examples" \in DOMAIN details
                 THEN <<MdLine("#### Examples", <<>>, NoTime)>> ELSE <<>>)
             \o (IF "validation" \in DOMAIN details
                 THEN <<MdLine("#### Validation Rules", <<>>, NoTime)>> ELSE <<>>)
             \o MethodSections(Tail(endpoints))

generate_markdown(endpoint_data, path, now) ==
    << MdLine("# {path} API Documentation", path, NoTime),
       MdLine("Generated on: {now}", <<>>, Strftime(now)) >>
    \o (IF "description" \in DOMAIN endpoint_data
        THEN << MdLine("## Description", <<>>, NoTime),
                MdLine("{description}", <<>>, NoTime) >>
        ELSE <<>>)
    \o <<MdLine("## Endpoints", <<>>, NoTime)>>
    \o MethodSections(Get(endpoint_data, "endpoints", <<>>))

\* ------------------------------------------------------ file contents
JsonFile(v) == [fmt |-> "json", val |-> v, lines |-> <<>>]

MdFile(ls) == [fmt |-> "md", val |-> [text |-> TRUE], lines |-> ls]

\* What a write that failed after open(..., 'w') leaves, and any other
\* text that is not a JSON document.
BadFile == [fmt |-> "bad", val |-> [text |-> TRUE], lines |-> <<>>]

\* json.load succeeds
Parses(c) == c.fmt = "json"

\* ------------------------------------------------------ the file tree
\* The tree is [dirs, files, listing]: the directories, the content of
\* every regular file, and the order in which the operating system lists
\* the root's subdirectories (glob('*/')).  That order is the
\* directory's own: a new subdirectory shows up somewhere in it and the
\* others keep their places.
EmptyFiles == [p \in {} |-> BadFile]

EmptyTree == [dirs |-> {}, files |-> EmptyFiles, listing |-> <<>>]

Put(files, p, c) == [q \in DOMAIN files \cup {p} |-> IF q = p THEN c ELSE files[q]]

InsertAt(seq, k, x) ==
    LET i == IF k > Len(seq) THEN Len(seq) ELSE k
    IN  SubSeq(seq, 1, i) \o <<x>> \o SubSeq(seq, i + 1, Len(seq))

\* Path.exists()
Exists(fs, p) == p \in fs.dirs \/ p \in DOMAIN fs.files

\* Path.mkdir(parents=True, exist_ok=True); pos is where a new child of the
\* root lands in the root's listing.
MkdirP(fs, p, pos) ==
    LET chain == Ancestors(p) \cup {p}
        top   == {d \in chain \ fs.dirs : d # Root /\ Seps(d) = {}}
    IN  IF \E d \in chain : d \in DOMAIN fs.files
        THEN [ok |-> FALSE, fs |-> fs]
        ELSE [ok |-> TRUE,
              fs |-> [fs EXCEPT !.dirs = @ \cup chain,
                                !.listing = IF top = {} THEN @
                                            ELSE InsertAt(@, pos, CHOOSE d \in top : TRUE)]]

\* Path.mkdir(exist_ok=True), for a path below a family directory
Mkdir(fs, p) ==
    IF p \in DOMAIN fs.files \/ Parent(p) \notin fs.dirs
    THEN [ok |-> FALSE, fs |-> fs]
    ELSE [ok |-> TRUE, fs |-> [fs EXCEPT !.dirs = @ \cup {p}]]

\* open(p, 'w') succeeds
CanOpenW(fs, p) == Parent(p) \in fs.dirs /\ p \notin fs.dirs

\* with open(p, 'w') as f: <dump c>.  io is [exc, fs, wrote]: the exception
\* raised so far ("none": the run is still going), the tree, and what the
\* run has put into each file it opened.  A write with fault set fails
\* after the file was opened.
Write(io, p, c, fault) ==
    IF io.exc # "none" THEN io
    ELSE IF ~CanOpenW(io.fs, p) THEN [io EXCEPT !.exc = "open"]
    ELSE LET got == IF fault THEN BadFile ELSE c
         IN  [exc   |-> IF fault THEN "write" ELSE "none",
              fs    |-> [io.fs EXCEPT !.files = Put(@, p, got)],
              wrote |-> Put(io.wrote, p, got)]

\* ----------------------------------------------------------- documents
P_IP == <<"I", "P">>
P_id == <<"i", "d">>

Entry(k, v) == [key |-> k, value |-> v]

\* An endpoint's value that is a mapping, with its fields
Endpoint(fields) == [kind |-> "mapping", items |-> <<>>, obj |-> fields]

NotAnEndpoint == [kind |-> "scalar", items |-> <<>>, obj |-> <<>>]

DocInterface ==
    Mapping(<<
      Entry(<<"/", "interface">>, Mapping(<<
        Entry(<<"/", "ethernet">>,
              Endpoint([method |-> "GET", description |-> "d",
                        parameters |-> <<Entry(P_IP, [type |-> K_mac, required |-> TRUE])>>])),
        Entry(<<"/", "vlan", "/">>, Endpoint([method |-> "POST"])) >>)) >>)

DocEthernetId ==
    Mapping(<<
      Entry(<<"/", "interface">>, Mapping(<<
        Entry(<<"/", "ethernet", "/", "{id}">>,
              Endpoint([parameters |-> <<Entry(P_id, [type |-> K_string])>>])) >>)) >>)

DocSystem ==
    Mapping(<<
      Entry(<<"version">>, Scalar),
      Entry(<<"/", "system">>, Mapping(<<
        Entry(<<"/", "note">>, NotAnEndpoint),
        Entry(<<"/", "reboot">>, Endpoint([method |-> "DELETE"])) >>)),
      Entry(<<"/", "ip", "/", "address">>, Mapping(<<>>)) >>)

DocBadFamily ==
    Mapping(<<
      Entry(<<"/", "interface">>, Mapping(<<
        Entry(<<"/", "ethernet">>, Endpoint(<<>>)) >>)),
      Entry(<<"/", "system">>, Scalar) >>)

\* yaml.safe_load returned something that is no mapping
DocList == Scalar

Docs == {DocInterface, DocEthernetId, DocSystem, DocBadFamily, DocList}

\* --------------------------------------------------------------- state
VARIABLES
    fs,            \* the output tree
    clock,         \* datetime.now(), in seconds
    pc,            \* where process_raml is: idle, mkdirs, load, split, family,
                   \* index, done (it returned), raised (it raised)
    exc,           \* what process_raml raised: mkdir, load, items, open, write,
                   \* json ("none": nothing)
    raml_content,  \* process_raml: the loaded document
    fi,            \* split_raml: the entry of the document the loop is at
    family_dir,    \* process_family: the family's directory
    family_index,  \* process_family: the index being collected
    ei,            \* process_family: the entry of the family the loop is at
    runs,          \* process_raml calls so far
    tampers,       \* edits of the tree by the environment so far
    wrote,         \* history: what this run put into each file it opened
    prev,          \* history: the document, tree and clock the run before this
                   \* one ended with, if it completed
    errors,        \* RamlValidator.errors, as a bag
    warnings,      \* RamlValidator.warnings, as a bag
    verdict,       \* validate_all's result: "none" before it ran
    param_name,    \* get_example_value's arguments and result
    param_type,
    example

splitterVars == <<pc, exc, raml_content, fi, family_dir, family_index, ei, runs, wrote, prev>>
validatorVars == <<errors, warnings, verdict>>
exampleVars == <<param_name, param_type, example>>
vars == <<fs, clock, tampers, splitterVars, validatorVars, exampleVars>>

NoFamilyIndex == [family |-> <<>>, endpoints |-> <<>>, examples |-> <<>>]

NoPrev == [valid |-> FALSE, doc |-> Scalar, fs |-> EmptyTree, at |-> 0]

Resting == {"idle", "done", "raised"}

\* Where a new family directory lands in the root's listing: the model
\* lets it come first or last.  docs/ and examples/ are listed in the order
\* they were made.
Positions == {0, Len(fs.listing)}

Init ==
    /\ fs = EmptyTree
    /\ clock = 0
    /\ pc = "idle"
    /\ exc = "none"
    /\ raml_content = Scalar
    /\ fi = 0
    /\ family_dir = Root
    /\ family_index = NoFamilyIndex
    /\ ei = 0
    /\ runs = 0
    /\ tampers = 0
    /\ wrote = EmptyFiles
    /\ prev = NoPrev
    /\ errors = EmptyBag
    /\ warnings = EmptyBag
    /\ verdict = "none"
    /\ param_name = <<>>
    /\ param_type = K_string
    /\ example = "none"

\* ------------------------------------------------- EnhancedRamlSplitter
\* The tree the except clause of process_raml leaves: it logs and re-raises.
\* A faulty clause would remove what the run wrote.
RaisedTree_Rollback(tree) ==
    [tree EXCEPT !.files = [p \in DOMAIN tree.files \ DOMAIN wrote |-> tree.files[p]]]

RaisedTree(tree) == tree

\* The wall clock advances.  It is read by generate_markdown and by
\* generate_index only, so it is let advance where a read is next: every
\* sequence of readings a run can get is still produced.
Tick ==
    /\ clock < MaxClock
    /\ pc \in {"family", "index"}
    /\ clock' = clock + 1
    /\ UNCHANGED <<fs, tampers, splitterVars, validatorVars, exampleVars>>

\* process_raml is called.
Start ==
    /\ pc \in Resting
    /\ runs < MaxRuns
    /\ pc' = "mkdirs"
    /\ exc' = "none"
    /\ runs' = runs + 1
    /\ wrote' = EmptyFiles
    /\ prev' = IF pc = "done"
               THEN [valid |-> TRUE, doc |-> raml_content, fs |-> fs, at |-> clock]
               ELSE NoPrev
    /\ raml_content' = Scalar
    /\ fi' = 0
    /\ ei' = 0
    /\ family_dir' = Root
    /\ family_index' = NoFamilyIndex
    /\ errors' = EmptyBag
    /\ warnings' = EmptyBag
    /\ verdict' = "none"
    /\ UNCHANGED <<fs, clock, tampers, exampleVars>>

create_directory_structure ==
    /\ pc = "mkdirs"
    /\ LET r0 == MkdirP(fs, Root, 0)
            r1 == IF r0.ok THEN MkdirP(r0.fs, <<"docs">>, Len(r0.fs.listing)) ELSE r0
            r2 == IF r1.ok THEN MkdirP(r1.fs, <<"examples">>, Len(r1.fs.listing)) ELSE r1
        IN  /\ fs' = IF r2.ok THEN r2.fs ELSE RaisedTree(r2.fs)
            /\ pc' = IF r2.ok THEN "load" ELSE "raised"
            /\ exc' = IF r2.ok THEN "none" ELSE "mkdir"
    /\ UNCHANGED <<clock, tampers, raml_content, fi, family_dir, family_index, ei,
                   runs, wrote, prev, validatorVars, exampleVars>>

\* load_raml: the file cannot be read or parsed, or holds one of the documents.
load_raml ==
    /\ pc = "load"
    /\ \E loaded \in BOOLEAN :
        IF loaded
        THEN \E d \in Docs :
               /\ raml_content' = d
               /\ pc' = "split"
               /\ fi' = 1
               /\ fs' = fs
               /\ exc' = exc
        ELSE /\ pc' = "raised"
             /\ exc' = "load"
             /\ fs' = RaisedTree(fs)
             /\ UNCHANGED <<raml_content, fi>>
    /\ UNCHANGED <<clock, tampers, family_dir, family_index, ei,
                   runs, wrote, prev, validatorVars, exampleVars>>

create_family_directory(tree, family, pos) ==
    LET dir == Join(Root, family)
        r1  == MkdirP(tree, dir, pos)
    IN  IF r1.ok THEN Mkdir(r1.fs, Join(dir, <<"docs">>)) ELSE r1

FamilyIndexFile(dir) == Join(dir, <<"_index", ".json">>)

\* family_index as process_family starts it.  A faulty start would carry
\* over the endpoints of the family index already on disk.
NewFamilyIndex_Kept(family) ==
    LET old == FamilyIndexFile(Join(Root, Strip(family)))
    IN  [family    |-> family,
         endpoints |-> IF old \in DOMAIN fs.files /\ Parses(fs.files[old])
                       THEN fs.files[old].val.endpoints ELSE <<>>,
         examples  |-> <<>>]

NewFamilyIndex(family) == [family |-> family, endpoints |-> <<>>, examples |-> <<>>]

\* One turn of split_raml's loop, up to process_family's own loop.
split_raml ==
    /\ pc = "split"
    /\ IF ~IsMapping(raml_content)
       THEN /\ pc' = "raised"
            /\ exc' = "items"
            /\ fs' = RaisedTree(fs)
            /\ UNCHANGED <<fi, family_dir, family_index, ei>>
       ELSE IF fi > Len(raml_content.items)
       THEN /\ pc' = "index"
            /\ UNCHANGED <<fs, exc, fi, family_dir, family_index, ei>>
       ELSE LET family    == raml_content.items[fi].key
                endpoints == raml_content.items[fi].value
            IN  IF ~StartsWithSlash(family)
                THEN /\ fi' = fi + 1
                     /\ UNCHANGED <<fs, pc, exc, family_dir, family_index, ei>>
                ELSE \E pos \in Positions :
                       LET r == create_family_directory(fs, Strip(family), pos)
                       IN  IF r.ok /\ IsMapping(endpoints)
                           THEN /\ fs' = r.fs
                                /\ pc' = "family"
                                /\ family_dir' = Join(Root, Strip(family))
                                /\ family_index' = NewFamilyIndex(family)
                                /\ ei' = 1
                                /\ fi' = fi
                                /\ exc' = exc
                           ELSE /\ fs' = RaisedTree(r.fs)
                                /\ pc' = "raised"
                                /\ exc' = IF r.ok THEN "items" ELSE "mkdir"
                                /\ UNCHANGED <<fi, family_dir, family_index, ei>>
    /\ UNCHANGED <<clock, tampers, raml_content, runs, wrote, prev,
                   validatorVars, exampleVars>>

RECURSIVE get_validation_rules(_)
get_validation_rules(params) ==
    IF params = <<>> THEN <<>>
    ELSE LET param_t == Get(params[1].value, "type", K_string)
             rule    == Lookup(validation_rules, param_t, <<>>)
         IN  (IF rule # <<>> THEN <<Entry(params[1].key, rule)>> ELSE <<>>)
             \o get_validation_rules(Tail(params))

\* endpoint_file and doc_file of process_endpoint
EndpointFile(dir, endpoint) == Join(dir, Strip(endpoint) \o <<".json">>)

DocFile_NoDocs(dir, endpoint) == Join(dir, Strip(endpoint) \o <<".md">>)

DocFile(dir, endpoint) == Join(Join(dir, <<"docs">>), Strip(endpoint) \o <<".md">>)

enhanced_data(endpoint, data) ==
    [endpoint   |-> endpoint,
     data       |-> data,
     examples   |-> generate_example_for_endpoint(endpoint, Get(data, "method", "GET"),
                                                  Get(data, "parameters", <<>>)),
     validation |-> get_validation_rules(Get(data, "parameters", <<>>))]

\* One turn of process_family's loop: process_endpoint for an entry that is
\* a mapping.  fault is the write (1: the descriptor, 2: the Markdown) that
\* fails after its file was opened, 0 for none.
process_endpoint ==
    /\ pc = "family"
    /\ ei <= Len(raml_content.items[fi].value.items)
    /\ LET endpoint == raml_content.items[fi].value.items[ei].key
           data     == raml_content.items[fi].value.items[ei].value
       IN  IF ~IsMapping(data)
           THEN /\ ei' = ei + 1
                /\ UNCHANGED <<fs, pc, exc, family_index, wrote>>
           ELSE \E fault \in 0..2 :
                  LET enhanced == enhanced_data(endpoint, data.obj)
                      w1 == Write([exc |-> "none", fs |-> fs, wrote |-> wrote],
                                  EndpointFile(family_dir, endpoint),
                                  JsonFile(enhanced), fault = 1)
                      w2 == Write(w1, DocFile(family_dir, endpoint),
                                  MdFile(generate_markdown(enhanced, endpoint, clock)),
                                  fault = 2)
                  IN  /\ wrote' = w2.wrote
                      /\ exc' = w2.exc
                      /\ IF w2.exc = "none"
                         THEN /\ fs' = w2.fs
                              /\ family_index' =
                                   [family_index EXCEPT !.endpoints = Append(@, enhanced)]
                              /\ ei' = ei + 1
                              /\ pc' = pc
                         ELSE /\ fs' = RaisedTree(w2.fs)
                              /\ pc' = "raised"
                              /\ UNCHANGED <<family_index, ei>>
    /\ UNCHANGED <<clock, tampers, raml_content, fi, family_dir, runs, prev,
                   validatorVars, exampleVars>>

\* The end of process_family: the family index is written.
write_family_index ==
    /\ pc = "family"
    /\ ei > Len(raml_content.items[fi].value.items)
    /\ \E fault \in BOOLEAN :
        LET w == Write([exc |-> "none", fs |-> fs, wrote |-> wrote],
                       FamilyIndexFile(family_dir), JsonFile(family_index), fault)
        IN  /\ wrote' = w.wrote
            /\ exc' = w.exc
            /\ IF w.exc = "none"
               THEN /\ fs' = w.fs
                    /\ pc' = "split"
                    /\ fi' = fi + 1
               ELSE /\ fs' = RaisedTree(w.fs)
                    /\ pc' = "raised"
                    /\ fi' = fi
    /\ UNCHANGED <<clock, tampers, raml_content, family_dir, family_index, ei, runs,
                   prev, validatorVars, exampleVars>>

RootIndexFile == <<"index", ".json">>

\* The family directories generate_index reads: the root's subdirectories
\* that are not hidden and hold an _index.json, in listing order.
IndexedDirs(tree) ==
    LET Indexed(d) == /\ d \in tree.dirs
                      /\ ~Hidden(BaseName(d))
                      /\ Exists(tree, FamilyIndexFile(d))
    IN  SelectSeq(tree.listing, Indexed)

Readable(tree, p) == p \in DOMAIN tree.files /\ Parses(tree.files[p])

generate_index ==
    /\ pc = "index"
    /\ \E fault \in BOOLEAN :
        LET found == IndexedDirs(fs)
            loads == \A i \in 1..Len(found) : Readable(fs, FamilyIndexFile(found[i]))
            index == [generated_at |-> Isoformat(clock),
                      families |-> [i \in 1..Len(found) |->
                                       fs.files[FamilyIndexFile(found[i])].val]]
            w == IF loads
                 THEN Write([exc |-> "none", fs |-> fs, wrote |-> wrote],
                            RootIndexFile, JsonFile(index), fault)
                 ELSE [exc |-> "json", fs |-> fs, wrote |-> wrote]
        IN  /\ wrote' = w.wrote
            /\ exc' = w.exc
            /\ IF w.exc = "none"
               THEN /\ fs' = w.fs
                    /\ pc' = "done"
               ELSE /\ fs' = RaisedTree(w.fs)
                    /\ pc' = "raised"
    /\ UNCHANGED <<clock, tampers, raml_content, fi, family_dir, family_index, ei,
                   runs, prev, validatorVars, exampleVars>>

\* -------------------------------------------------------- RamlValidator
\* One entry of errors or warnings: the message's fixed text, the name put
\* into it, and the file whose path is put into it (NoFile: none is).
NoFile == <<"-">>

Finding(m, a, f) == [msg |-> m, arg |-> a, file |-> f]

\* rglob(pattern) and glob(pattern): files and directories alike
AllPaths(tree) == (tree.dirs \cup DOMAIN tree.files) \ {Root}

\* One finding for each field of required that data lacks
MissingFields(data, required, m, f) ==
    {Finding(m, <<field>>, f) : field \in {x \in required : x \notin DOMAIN data}}

validate_directory_structure(tree) ==
    LET families == {tree.listing[i] : i \in 1..Len(tree.listing)}
        shown    == {d \in families : ~Hidden(BaseName(d))}
    IN  {Finding("Missing required directory: {dir_name}", <<d>>, NoFile) :
            d \in {x \in {"docs", "examples"} : ~Exists(tree, <<x>>)}}
        \cup {Finding("Missing docs directory in {family_dir.name}", BaseName(d), NoFile) :
                d \in {x \in shown : ~Exists(tree, Join(x, <<"docs">>))}}
        \cup {Finding("Missing _index.json in {family_dir.name}", BaseName(d), NoFile) :
                d \in {x \in shown : ~Exists(tree, FamilyIndexFile(x))}}

validate_index_files(tree) ==
    IF ~Exists(tree, RootIndexFile)
    THEN {Finding("Missing main index.json", <<>>, NoFile)}
    ELSE IF ~Readable(tree, RootIndexFile)
    THEN {Finding("Error validating main index.json: {e}", <<>>, NoFile)}
    ELSE MissingFields(tree.files[RootIndexFile].val, {"families"},
                       "Missing 'families' in main index.json", NoFile)

_validate_index_file(data, file_path) ==
    MissingFields(data, {"family", "endpoints"},
                  "Missing required field '{field}' in {file_path}", file_path)

\* self._validate_examples is not defined: the call raises AttributeError,
\* which validate_json_files catches.
_validate_endpoint_file(data, file_path) ==
    MissingFields(data, {"endpoint", "data"},
                  "Missing required field '{field}' in {file_path}", file_path)
    \cup (IF "examples" \in DOMAIN data
          THEN {Finding("Error processing {json_file}: {e}", <<>>, file_path)}
          ELSE {})

validate_json_files(tree) ==
    UNION {IF p \in tree.dirs
           THEN {Finding("Error processing {json_file}: {e}", <<>>, p)}
           ELSE IF ~Parses(tree.files[p])
           THEN {Finding("Invalid JSON in {json_file}: {e}", <<>>, p)}
           ELSE IF BaseName(p) = <<"_index", ".json">>
           THEN _validate_index_file(tree.files[p].val, p)
           ELSE _validate_endpoint_file(tree.files[p].val, p) :
           p \in {q \in AllPaths(tree) : IsJsonName(BaseName(q))}}

\* section in content
HasSection(lines, section) ==
    \E i \in 1..Len(lines) :
        IF section = "# "
        THEN lines[i].line \in {"# {path} API Documentation", "## Description",
                                "## Endpoints", "### ", "#### Parameters",
                                "#### Examples", "#### Validation Rules"}
        ELSE lines[i].line = section

\* The findings of validate_markdown_files: [errors, warnings]
validate_markdown_files(tree) ==
    LET found == {q \in AllPaths(tree) : IsMdName(BaseName(q))}
    IN  [errors   |-> {Finding("Error reading markdown file {md_file}: {e}", <<>>, p) :
                         p \in found \cap tree.dirs},
         warnings |-> UNION {
             {Finding("Missing section '{section}' in {md_file}", <<section>>, p) :
                section \in {x \in {"# ", "## Description", "## Endpoints"} :
                               ~HasSection(tree.files[p].lines, x)}} :
             p \in found \ tree.dirs}]

validate_examples(tree) ==
    UNION {IF ~Readable(tree, p)
           THEN {Finding("Error validating example {json_file}: {e}", <<>>, p)}
           ELSE MissingFields(tree.files[p].val, {"request", "response"},
                              "Missing required field '{field}' in example {json_file}", p) :
           p \in {q \in AllPaths(tree) :
                    Parent(q) = <<"examples">> /\ IsJsonName(BaseName(q))}}

\* An entry of the families list that is a JSON string: self.api_dir / family
\* raises TypeError for any other.
IsJsonString(v) == DOMAIN v = {"str"}

RECURSIVE CheckFamilies(_, _)
CheckFamilies(tree, families) ==
    IF families = <<>> THEN EmptyBag
    ELSE IF ~IsJsonString(families[1])
    THEN SetToBag({Finding("Error validating cross-references: {e}", <<>>, NoFile)})
    ELSE (IF Exists(tree, Join(Root, families[1].str)) THEN EmptyBag
          ELSE SetToBag({Finding("Referenced family directory does not exist: {family}",
                                 families[1].str, NoFile)}))
         (+) CheckFamilies(tree, Tail(families))

validate_references(tree) ==
    IF ~Readable(tree, RootIndexFile)
    THEN SetToBag({Finding("Error validating cross-references: {e}", <<>>, NoFile)})
    ELSE CheckFamilies(tree, Get(tree.files[RootIndexFile].val, "families", <<>>))

\* validate_all, on the tree as it is: the six passes in order.  The order
\* in which rglob yields the files is not kept: errors is a bag.
validate_all ==
    /\ pc \in Resting
    /\ verdict = "none"
    /\ LET found == SetToBag(validate_directory_structure(fs))
                    (+) SetToBag(validate_index_files(fs))
                    (+) SetToBag(validate_json_files(fs))
                    (+) SetToBag(validate_markdown_files(fs).errors)
                    (+) SetToBag(validate_examples(fs))
                    (+) validate_references(fs)
       IN  /\ errors' = found
           /\ warnings' = SetToBag(validate_markdown_files(fs).warnings)
           /\ verdict' = IF BagToSet(found) = {} THEN "pass" ELSE "fail"
    /\ UNCHANGED <<fs, clock, tampers, splitterVars, exampleVars>>

\* ------------------------------------------------------ the environment
\* Between runs somebody edits the output tree by hand.
ExampleFile == <<"examples", "/", "foo", ".json">>

Edited(tree) ==
    /\ pc \in Resting
    /\ tampers < MaxTamper
    /\ tampers' = tampers + 1
    /\ fs' = tree
    /\ pc' = "idle"
    /\ exc' = "none"
    /\ wrote' = EmptyFiles
    /\ prev' = NoPrev
    /\ errors' = EmptyBag
    /\ warnings' = EmptyBag
    /\ verdict' = "none"
    /\ UNCHANGED <<clock, raml_content, fi, family_dir, family_index, ei, runs,
                   exampleVars>>

\* An example is put into examples/: complete, without its response, or
\* not JSON at all.
put_example ==
    /\ CanOpenW(fs, ExampleFile)
    /\ \E c \in {JsonFile([request |-> <<>>, response |-> <<>>]),
                 JsonFile([request |-> <<>>]),
                 BadFile} :
         Edited([fs EXCEPT !.files = Put(@, ExampleFile, c)])

\* A JSON file of the tree is damaged.
corrupt_json ==
    \E p \in {q \in DOMAIN fs.files : IsJsonName(BaseName(q)) /\ Parses(fs.files[q])} :
        Edited([fs EXCEPT !.files = Put(@, p, BadFile)])

\* The root index is replaced by one that names the families.
put_index ==
    /\ CanOpenW(fs, RootIndexFile)
    /\ Edited([fs EXCEPT !.files =
                 Put(@, RootIndexFile,
                     JsonFile([families |-> << [str |-> <<"interface">>],
                                               [str |-> <<"system">>] >>]))])

\* --------------------------------------------------- get_example_value
Alphabet == {"i", "p", "I", "P", "m", "a", "c", "v", "6"}

Names == UNION {[1..n -> Alphabet] : n \in 0..MaxNameLen}

Types == {K_ip, K_mac, K_string, K_number, <<"v", "6">>}

InitExample ==
    /\ fs = EmptyTree
    /\ clock = 0
    /\ pc = "idle"
    /\ exc = "none"
    /\ raml_content = Scalar
    /\ fi = 0
    /\ family_dir = Root
    /\ family_index = NoFamilyIndex
    /\ ei = 0
    /\ runs = 0
    /\ tampers = 0
    /\ wrote = EmptyFiles
    /\ prev = NoPrev
    /\ errors = EmptyBag
    /\ warnings = EmptyBag
    /\ verdict = "none"
    /\ param_name \in Names
    /\ param_type \in Types
    /\ example = "none"

synthesize ==
    /\ example = "none"
    /\ example' = get_example_value(param_type, param_name)
    /\ UNCHANGED <<fs, clock, tampers, splitterVars, validatorVars, param_name, param_type>>

\* ------------------------------------------------------ specifications
Next ==
    \/ Tick
    \/ Start
    \/ create_directory_structure
    \/ load_raml
    \/ split_raml
    \/ process_endpoint
    \/ write_family_index
    \/ generate_index

Spec == Init /\ [][Next]_vars

\* The splitter with the validator and the environment's edits
NextValidated ==
    \/ Tick
    \/ Start
    \/ create_directory_structure
    \/ load_raml
    \/ split_raml
    \/ process_endpoint
    \/ write_family_index
    \/ generate_index
    \/ validate_all
    \/ put_example
    \/ corrupt_json
    \/ put_index

SpecValidated == Init /\ [][NextValidated]_vars

\* get_example_value on every bounded name and type
NextExample == synthesize

SpecExample == InitExample /\ [][NextExample]_vars

\* ------------------------------------------------------------ properties
\* The families of a document: its top-level entries whose key starts with '/'
Families(doc) ==
    IF IsMapping(doc)
    THEN {i \in 1..Len(doc.items) : StartsWithSlash(doc.items[i].key)}
    ELSE {}

\* The entries of a family whose value is a mapping
MappingEndpoints(family) ==
    IF IsMapping(family)
    THEN {j \in 1..Len(family.items) : IsMapping(family.items[j].value)}
    ELSE {}

\* Every top-level key starts with '/', every family is a mapping, every
\* endpoint is a mapping.
WellFormed(doc) ==
    /\ IsMapping(doc)
    /\ \A i \in 1..Len(doc.items) :
         /\ StartsWithSlash(doc.items[i].key)
         /\ IsMapping(doc.items[i].value)
         /\ \A j \in 1..Len(doc.items[i].value.items) :
              IsMapping(doc.items[i].value.items[j].value)

\* The entries of errors that carry the path p, as a bag
About(p) ==
    [e \in {x \in BagToSet(errors) : x.file = p} |-> CopiesIn(e, errors)]

\* A file's content without the time it was generated at
WithoutGeneratedAt(c) ==
    IF Parses(c) /\ "generated_at" \in DOMAIN c.val
    THEN [c EXCEPT !.val.generated_at = NoTime]
    ELSE c

WithoutGeneratedOn(c) ==
    LET ls == c.lines
    IN  [c EXCEPT !.lines = [i \in 1..Len(ls) |->
                               IF ls[i].line = "Generated on: {now}"
                               THEN [ls[i] EXCEPT !.at = NoTime]
                               ELSE ls[i]]]

\* The run that just completed repeated the run before it.
Repeated == pc = "done" /\ prev.valid /\ prev.doc = raml_content

\* C1: after process_raml of a well-formed document into an empty root,
\* validate_all returns true and leaves errors empty.
C1_RoundTrip ==
    (verdict # "none" /\ pc = "done" /\ runs = 1 /\ tampers = 0
        /\ WellFormed(raml_content))
    => (verdict = "pass" /\ errors = EmptyBag)

\* C2, as stated: a second run on the same document, the clock having
\* advanced, leaves every file as the first run left it, but for generated_at
\* in index.json.
C2_IdenticalButIndex ==
    (Repeated /\ clock > prev.at)
    => /\ DOMAIN fs.files = DOMAIN prev.fs.files
       /\ \A p \in DOMAIN fs.files :
            IF p = RootIndexFile
            THEN WithoutGeneratedAt(fs.files[p]) = WithoutGeneratedAt(prev.fs.files[p])
            ELSE fs.files[p] = prev.fs.files[p]

\* C2, amended: a second run on the same document leaves every file as the
\* first run left it, but for generated_at in index.json and for the
\* "Generated on:" line of every Markdown file.
C2_IdenticalButTimes ==
    Repeated
    => /\ DOMAIN fs.files = DOMAIN prev.fs.files
       /\ \A p \in DOMAIN fs.files :
            IF p = RootIndexFile
            THEN WithoutGeneratedAt(fs.files[p]) = WithoutGeneratedAt(prev.fs.files[p])
            ELSE WithoutGeneratedOn(fs.files[p]) = WithoutGeneratedOn(prev.fs.files[p])

\* A second run on the same document, later by the clock, whose Markdown
\* differs from the first run's in the time alone.
C2_Witness ==
    /\ Repeated
    /\ clock > prev.at
    /\ raml_content = DocInterface
    /\ \E p \in DOMAIN fs.files :
         /\ IsMdName(BaseName(p))
         /\ fs.files[p] # prev.fs.files[p]

\* C3: after process_raml completed, every family directory holds _index.json
\* and docs/, and every endpoint that is a mapping has <name>.json in the
\* family directory and <name>.md in its docs/, <name> being the key without
\* its leading and trailing slashes.
C3_Layout ==
    pc = "done"
    => \A i \in Families(raml_content) :
         LET dir == Join(Root, Strip(raml_content.items[i].key))
             family == raml_content.items[i].value
         IN  /\ Readable(fs, Join(dir, <<"_index", ".json">>))
             /\ Join(dir, <<"docs">>) \in fs.dirs
             /\ \A j \in MappingEndpoints(family) :
                  LET name == Strip(family.items[j].key)
                      json == Join(dir, name \o <<".json">>)
                      md   == Join(Join(dir, <<"docs">>), name \o <<".md">>)
                  IN  /\ Readable(fs, json)
                      /\ fs.files[json].val.endpoint = family.items[j].key
                      /\ md \in DOMAIN fs.files
                      /\ fs.files[md].fmt = "md"

\* A run completed on a document with two families, one of them with an
\* endpoint that is no mapping.
C3_Witness ==
    /\ pc = "done"
    /\ raml_content = DocSystem
    /\ <<"system", "/", "docs", "/", "reboot", ".md">> \in DOMAIN fs.files

\* C4: examples/foo.json with request and response gets no error entry;
\* with request and no response it gets exactly one, which names response.
C4_ExampleFile ==
    (verdict # "none" /\ Readable(fs, ExampleFile)
        /\ "request" \in DOMAIN fs.files[ExampleFile].val)
    => IF "response" \in DOMAIN fs.files[ExampleFile].val
       THEN BagCardinality(About(ExampleFile)) = 0
       ELSE /\ BagCardinality(About(ExampleFile)) = 1
            /\ \A e \in DOMAIN About(ExampleFile) : e.arg = <<"response">>

\* C5: a run after a completed run leaves the files, and the families of
\* index.json, that the same run leaves on an empty root: nothing that only
\* the earlier document had survives.
C5_Regenerates ==
    (pc = "done" /\ prev.valid)
    => /\ DOMAIN fs.files = DOMAIN wrote
       /\ LET families == fs.files[RootIndexFile].val.families
          IN  \A k \in 1..Len(families) :
                \E i \in Families(raml_content) :
                    raml_content.items[i].key = families[k].family

\* C6: the run on family '/interface' with endpoint '/ethernet/{id}'
\* completes with interface/ethernet/{id}.json present.
C6_EmbeddedSlash ==
    (raml_content = DocEthernetId /\ pc \in {"done", "raised"} /\ exc # "write")
    => /\ pc = "done"
       /\ <<"interface", "/", "ethernet", "/", "{id}", ".json">> \in DOMAIN fs.files

\* C7: when one JSON file of the tree does not parse, validate_all records
\* that as exactly one entry carrying the file's path.
C7_OneEntryPerFile ==
    verdict # "none"
    => \A p \in DOMAIN fs.files :
         (/\ IsJsonName(BaseName(p))
          /\ ~Parses(fs.files[p])
          /\ \A q \in DOMAIN fs.files \ {p} :
                IsJsonName(BaseName(q)) => Parses(fs.files[q]))
         => BagCardinality(About(p)) = 1

\* The files the run can have opened when it is at entry ei of family fi
OpenedSoFar ==
    IF ~IsMapping(raml_content) THEN {}
    ELSE UNION {
        LET dir == Join(Root, Strip(raml_content.items[i].key))
            family == raml_content.items[i].value
        IN  (IF i < fi THEN {Join(dir, <<"_index", ".json">>)} ELSE {})
            \cup UNION {
                LET name == Strip(family.items[j].key)
                IN  {Join(dir, name \o <<".json">>),
                     Join(Join(dir, <<"docs">>), name \o <<".md">>)} :
                j \in {x \in MappingEndpoints(family) : i < fi \/ x <= ei}} :
        i \in {x \in Families(raml_content) : x <= fi}}

C9_EveryFamilyIndexed ==
    (pc = "done" /\ runs = 1)
    => LET families == fs.files[RootIndexFile].val.families
       IN  \A i \in Families(raml_content) :
             LET key == raml_content.items[i].key
                 own == Join(Join(Root, Strip(key)), <<"_index", ".json">>)
             IN  \E k \in 1..Len(families) :
                   /\ families[k].family = key
                   /\ families[k] = fs.files[own].val

\* The name holds an i next to a p, in either case.
ContainsIp(name) ==
    \E i \in 1..Len(name) :
        /\ i < Len(name)
        /\ name[i] \in {"i", "I"}
        /\ name[i + 1] \in {"p", "P"}

\* C10: for a name that contains 'ip' in any case, get_example_value returns
\* '192.168.88.1' whatever the declared type.
C10_IpWins ==
    (example # "none" /\ ContainsIp(param_name)) => example = "192.168.88.1"

\* The name is 'IP' in capitals and the declared type has an example of its own.
C10_Witness ==
    /\ example = "192.168.88.1"
    /\ param_name = <<"I", "P">>
    /\ param_type = K_mac

====
